---- MODULE Spec2Model ----
(***************************************************************************)
(* Model of the AOK remote protocol codec                                  *)
(* (esphome/components/remote_base/aok_protocol.cpp and aok_protocol.h).   *)
(*                                                                         *)
(* A transmitter encodes an AOKData packet into a RemoteTransmitData pulse *)
(* buffer; the radio channel hands a (possibly disturbed) copy of it to a  *)
(* receiver as a RemoteReceiveData buffer; AOKProtocol::decode scans it.   *)
(*                                                                         *)
(* Pulse buffers are sequences of signed durations as in esphome's         *)
(* RawTimings: a mark is stored as +duration, a space as -duration.        *)
(* A std::bitset<64> is a function 0..63 -> {0,1} indexed by bit position. *)
(* TLC integers are 32 bit signed, so 64 bit values are never built as     *)
(* integers, and the uint32_t device is drawn from 0 .. 2^31-1.            *)
(***************************************************************************)
EXTENDS Integers, Sequences, FiniteSets, TLC

(***************************************************************************)
(* Protocol constants, aok_protocol.cpp lines 10-21.                       *)
(***************************************************************************)
AOK_PACKET_SIZE == 64
AOK_HEADER == 163
AOK_PRE_POST_ZEROS == 16
AOK_PACKET_PREFIX_MARK == 5000
AOK_PACKET_SUFFIX_SPACE == 5000
AOK_ONE_MARK == 600
AOK_ONE_SPACE == 275
AOK_ZERO_MARK == 290
AOK_ZERO_SPACE == 600
AOK_REPEATS == 6

(***************************************************************************)
(* enum AOKCommand, aok_protocol.h.                                        *)
(***************************************************************************)
COMMAND_UP == 11
COMMAND_DOWN == 67
COMMAND_STOP == 35
COMMAND_PROGRAM == 83
COMMAND_RELEASE == 36

(***************************************************************************)
(* enum AOKChannel (the members the model draws from).                     *)
(***************************************************************************)
CHANNEL_1 == 256
CHANNEL_ALL == 65535

(***************************************************************************)
(* Bounds of the model.                                                    *)
(***************************************************************************)
\* largest number of noise pulse pairs the channel puts in front of a burst
MaxNoise == 2
\* largest number of leading frames the channel leaves intact before it
\* replaces the rest of the buffer by noise
MaxKept == 2

(***************************************************************************)
(* Input sets.                                                             *)
(***************************************************************************)
\* 0x010203 and 0xffffff fit the 24 bit device field; 0x41fe0304 and
\* 0x01000000 are uint32_t values with bits above bit 23 set
NarrowDevices == {66051, 16777215}
WideDevices == {1107165956, 16777216}
Devices == NarrowDevices \cup WideDevices
Channels == {CHANNEL_1, CHANNEL_ALL}
Commands == {COMMAND_UP, COMMAND_DOWN, COMMAND_STOP, COMMAND_PROGRAM, COMMAND_RELEASE}

\* struct AOKData
AOKData == [device : Devices, channel : Channels, command : Commands]

\* the packets handed to encode
Packets ==
  {d \in AOKData :
     \/ d.device = 66051 /\ d.channel = CHANNEL_1
     \/ d.device = 16777215 /\ d.channel = CHANNEL_ALL
     \/ d.device \in WideDevices /\ d.channel = CHANNEL_1 /\ d.command = COMMAND_STOP
     \/ d.device = 1107165956 /\ d.channel = CHANNEL_ALL /\ d.command = COMMAND_UP}

(***************************************************************************)
(* Bit helpers.                                                            *)
(***************************************************************************)
\* bit i of an unsigned value x < 2^31
Bit(x, i) == IF i > 30 THEN 0 ELSE (x \div (2^i)) % 2

\* std::bitset<64> bits(0)
ZeroBits == [j \in 0..(AOK_PACKET_SIZE - 1) |-> 0]

\* bits |= (uint64_t) x << s, where x has an unsigned type of `width' bits
OrShifted(bits, x, width, s) ==
  [j \in 0..(AOK_PACKET_SIZE - 1) |->
     IF bits[j] = 1 THEN 1
     ELSE IF j >= s /\ j - s < width THEN Bit(x, j - s) ELSE 0]

\* (ulbits >> lo) & (2^w - 1) for bits.to_ullong(), w <= 24
RECURSIVE BitsField(_, _, _)
BitsField(bits, lo, w) ==
  IF w = 0 THEN 0 ELSE bits[lo] + 2 * BitsField(bits, lo + 1, w - 1)

\* checksum with the high byte of channel left out of the sum
checksum_one_channel_byte(data) ==
  LET device_ptr == [k \in 0..2 |-> (data.device \div (256^k)) % 256]
      channel_ptr == [k \in 0..1 |-> (data.channel \div (256^k)) % 256]
      sum0 == (device_ptr[0] + device_ptr[1] + device_ptr[2]) % 65536
      sum1 == (sum0 + channel_ptr[0]) % 65536
      sum2 == (sum1 + data.command) % 65536
  IN  sum2 % 256

(***************************************************************************)
(* AOKData::checksum: the sum of the first three bytes of the object       *)
(* representation of device (little endian, as on every esphome target),   *)
(* the two bytes of channel and the command, in a uint16_t, cut to 8 bits. *)
(***************************************************************************)
checksum(data) ==
  LET device_ptr == [k \in 0..2 |-> (data.device \div (256^k)) % 256]
      channel_ptr == [k \in 0..1 |-> (data.channel \div (256^k)) % 256]
      sum0 == (device_ptr[0] + device_ptr[1] + device_ptr[2]) % 65536
      sum1 == (sum0 + channel_ptr[0] + channel_ptr[1]) % 65536
      sum2 == (sum1 + data.command) % 65536
  IN  sum2 % 256

(***************************************************************************)
(* AOKProtocol::packet_bits.                                               *)
(***************************************************************************)
packet_bits(data) ==
  LET b1 == OrShifted(ZeroBits, AOK_HEADER, 8, 56)
      b2 == OrShifted(b1, data.device, 32, 32)
      b3 == OrShifted(b2, data.channel, 16, 16)
      b4 == OrShifted(b3, data.command, 8, 8)
  IN  OrShifted(b4, checksum(data), 8, 0)

(***************************************************************************)
(* RemoteTransmitData (remote_base.h): item(mark, space) appends the mark  *)
(* as a positive and the space as a negative duration.                     *)
(***************************************************************************)
item(dst, mark, space) == [dst EXCEPT !.data = @ \o <<mark, -space>>]

set_carrier_frequency(dst, f) == [dst EXCEPT !.carrier_frequency = f]

reserve(dst, len) == [dst EXCEPT !.reserved = len]

NewTransmitData == [carrier_frequency |-> 38000, reserved |-> 0, data |-> << >>]

(***************************************************************************)
(* AOKProtocol::encode_packet: prefix, 64 bit items most significant bit   *)
(* first, suffix.                                                          *)
(***************************************************************************)
\* BitItem reading the bitset least significant bit first
BitItem_lsb_first(bits, i) ==
  IF bits[i] = 1
  THEN <<AOK_ONE_MARK, -AOK_ONE_SPACE>>
  ELSE <<AOK_ZERO_MARK, -AOK_ZERO_SPACE>>

\* lines 39-45: the item of loop round i, then the whole loop
BitItem(bits, i) ==
  IF bits[AOK_PACKET_SIZE - i - 1] = 1
  THEN <<AOK_ONE_MARK, -AOK_ONE_SPACE>>
  ELSE <<AOK_ZERO_MARK, -AOK_ZERO_SPACE>>

EncodeBitsLoop(dst, bits) ==
  [dst EXCEPT !.data = @ \o [k \in 1..(2 * AOK_PACKET_SIZE) |->
                               BitItem(bits, (k - 1) \div 2)[((k - 1) % 2) + 1]]]

\* lines 34-48 for an already computed bitset
EncodeFrameBits(dst, bits) ==
  LET d1 == item(dst, AOK_PACKET_PREFIX_MARK, AOK_ZERO_SPACE)
      d2 == EncodeBitsLoop(d1, bits)
  IN  item(d2, AOK_ONE_MARK, AOK_PACKET_SUFFIX_SPACE)

encode_packet(dst, data) == EncodeFrameBits(dst, packet_bits(data))

\* lines 65-67 and 83-85: n zero items
ZerosLoop(dst, n) ==
  [dst EXCEPT !.data = @ \o [k \in 1..(2 * n) |->
                               IF k % 2 = 1 THEN AOK_ZERO_MARK ELSE -AOK_ZERO_SPACE]]

RECURSIVE RepeatLoop(_, _, _)
RepeatLoop(dst, data, n) ==
  IF n = 0 THEN dst ELSE RepeatLoop(encode_packet(dst, data), data, n - 1)

\* NeedsRelease that forgets COMMAND_DOWN
NeedsRelease_up_only(data) == data.command = COMMAND_UP

NeedsRelease(data) == data.command = COMMAND_UP \/ data.command = COMMAND_DOWN

\* encode_data_size that counts pulse pairs, not durations
encode_data_size_pairs(data) ==
  LET command_count == IF NeedsRelease(data) THEN 2 ELSE 1
  IN  (AOK_PRE_POST_ZEROS
       + (((1 + AOK_PACKET_SIZE + 1) * command_count) * AOK_REPEATS)
       + AOK_PRE_POST_ZEROS) % 65536

\* uint16_t data_size of AOKProtocol::encode
encode_data_size(data) ==
  LET command_count == IF NeedsRelease(data) THEN 2 ELSE 1
  IN  ((AOK_PRE_POST_ZEROS
        + (((1 + AOK_PACKET_SIZE + 1) * command_count) * AOK_REPEATS)
        + AOK_PRE_POST_ZEROS) * 2) % 65536

(***************************************************************************)
(* AOKProtocol::encode.                                                    *)
(***************************************************************************)
encode(dst, data) ==
  LET d0 == set_carrier_frequency(dst, 0)
      d1 == reserve(d0, encode_data_size(data))
      d2 == ZerosLoop(d1, AOK_PRE_POST_ZEROS)
      d3 == RepeatLoop(d2, data, AOK_REPEATS)
      data_release == [data EXCEPT !.command = COMMAND_RELEASE]
      d4 == IF NeedsRelease(data) THEN RepeatLoop(d3, data_release, AOK_REPEATS) ELSE d3
  IN  ZerosLoop(d4, AOK_PRE_POST_ZEROS)

(***************************************************************************)
(* RemoteReceiveData (remote_base.h): a buffer of signed durations, a read *)
(* cursor and a matching tolerance in percent.  size, the cursor, advance  *)
(* and the peek offsets count single durations, as decode uses them        *)
(* (min_size is 2 + 64 * 2 + 2, a pulse pair is skipped by advance(2)).    *)
(* The cursor is a uint32_t; decode only subtracts min_size from a size    *)
(* that passed the sanity check, so nothing wraps.                         *)
(***************************************************************************)
TOLERANCE == 25

NewReceiveData(raw) == [data |-> raw, index |-> 0]

size(src) == Len(src.data)

get_index(src) == src.index

is_valid(src, offset) == src.index + offset < size(src)

peek(src, offset) == src.data[src.index + offset + 1]

lower_bound(length) == (length * (100 - TOLERANCE)) \div 100

upper_bound(length) == (length * (100 + TOLERANCE)) \div 100

peek_mark(src, length, offset) ==
  /\ is_valid(src, offset)
  /\ peek(src, offset) >= 0
  /\ lower_bound(length) <= peek(src, offset)
  /\ peek(src, offset) <= upper_bound(length)

peek_space(src, length, offset) ==
  /\ is_valid(src, offset)
  /\ peek(src, offset) <= 0
  /\ lower_bound(length) <= -peek(src, offset)
  /\ -peek(src, offset) <= upper_bound(length)

peek_item(src, mark, space, offset) ==
  peek_mark(src, mark, offset) /\ peek_space(src, space, offset + 1)

advance(src, amount) == [src EXCEPT !.index = @ + amount]

\* expect_item(mark, space) is peek_item(mark, space) followed, when it
\* matches, by advance(2)
expect_item(src, mark, space) == peek_item(src, mark, space, 0)

(***************************************************************************)
(* optional<AOKData>: << >> is the empty optional, <<d>> holds d.          *)
(***************************************************************************)
Nothing == << >>

Some(d) == <<d>>

has_value(o) == o # << >>

(***************************************************************************)
(* AOKProtocol::decode_packet.  The result is the source as the call       *)
(* leaves it (src is passed by reference) and the returned optional.       *)
(***************************************************************************)
\* decode_bits that cuts the channel to its low byte
decode_bits_channel_byte(bits) ==
  IF BitsField(bits, 56, 8) # AOK_HEADER THEN Nothing
  ELSE LET d == [device |-> BitsField(bits, 32, 24),
                 channel |-> BitsField(bits, 16, 8),
                 command |-> BitsField(bits, 8, 8)]
       IN  IF checksum(d) # BitsField(bits, 0, 8) THEN Nothing ELSE Some(d)

\* decode_bits without the header check
decode_bits_any_header(bits) ==
  LET d == [device |-> BitsField(bits, 32, 24),
            channel |-> BitsField(bits, 16, 16),
            command |-> BitsField(bits, 8, 8)]
  IN  IF checksum(d) # BitsField(bits, 0, 8) THEN Nothing ELSE Some(d)

\* decode_bits without the checksum validation
decode_bits_any_checksum(bits) ==
  IF BitsField(bits, 56, 8) # AOK_HEADER THEN Nothing
  ELSE Some([device |-> BitsField(bits, 32, 24),
             channel |-> BitsField(bits, 16, 16),
             command |-> BitsField(bits, 8, 8)])

\* lines 113-134: header check, field extraction, checksum validation
decode_bits(bits) ==
  IF BitsField(bits, 56, 8) # AOK_HEADER THEN Nothing
  ELSE LET d == [device |-> BitsField(bits, 32, 24),
                 channel |-> BitsField(bits, 16, 16),
                 command |-> BitsField(bits, 8, 8)]
       IN  IF checksum(d) # BitsField(bits, 0, 8) THEN Nothing ELSE Some(d)

\* BitItemAt that takes an item of neither shape for a zero bit
BitItemAt_default_zero(src, i) ==
  IF peek_item(src, AOK_ONE_MARK, AOK_ONE_SPACE, 2 * i) THEN 1 ELSE 0

\* lines 96-105: the bit capture loop, entered with the cursor of src on
\* the first bit item.  Round i looks only at the item 2*i past that cursor
\* (each earlier round consumed one item), so the loop returns early at
\* the first item that is neither a one nor a zero, the cursor left on it;
\* ok is FALSE after that early return.
BitItemAt(src, i) ==
  IF peek_item(src, AOK_ONE_MARK, AOK_ONE_SPACE, 2 * i) THEN 1
  ELSE IF peek_item(src, AOK_ZERO_MARK, AOK_ZERO_SPACE, 2 * i) THEN 0
  ELSE -1

\* the loop for the items seen: seen[i] is the item round i would meet
CaptureSeen(src, seen) ==
  LET rounds == 0..(AOK_PACKET_SIZE - 1)
      bad == {i \in rounds : seen[i] = -1}
  IN  IF bad = {}
      THEN [ok |-> TRUE, src |-> advance(src, 2 * AOK_PACKET_SIZE),
            bits |-> [j \in rounds |-> seen[AOK_PACKET_SIZE - j - 1]]]
      ELSE [ok |-> FALSE,
            src |-> advance(src, 2 * (CHOOSE i \in bad : \A k \in bad : i <= k)),
            bits |-> [j \in rounds |->
                        IF \A k \in 0..(AOK_PACKET_SIZE - j - 1) : seen[k] # -1
                        THEN seen[AOK_PACKET_SIZE - j - 1] ELSE 0]]

CaptureBits(src) ==
  CHOOSE c \in {CaptureSeen(src, seen) :
                  seen \in {[i \in 0..(AOK_PACKET_SIZE - 1) |-> BitItemAt(src, i)]}} : TRUE

\* decode_packet that puts the cursor back where it was when it fails
decode_packet_rollback(src) ==
  IF ~expect_item(src, AOK_PACKET_PREFIX_MARK, AOK_ZERO_SPACE)
  THEN [src |-> src, value |-> Nothing]
  ELSE CHOOSE r \in
         {IF ~c.ok THEN [src |-> src, value |-> Nothing]
          ELSE IF ~expect_item(c.src, AOK_ONE_MARK, AOK_PACKET_SUFFIX_SPACE)
               THEN [src |-> src, value |-> Nothing]
               ELSE [src |-> advance(c.src, 2), value |-> decode_bits(c.bits)] :
            c \in {CaptureBits(advance(src, 2))}} : TRUE

\* c is the outcome of the bit capture loop
decode_packet(src) ==
  IF ~expect_item(src, AOK_PACKET_PREFIX_MARK, AOK_ZERO_SPACE)
  THEN [src |-> src, value |-> Nothing]
  ELSE CHOOSE r \in
         {IF ~c.ok THEN [src |-> c.src, value |-> Nothing]
          ELSE IF ~expect_item(c.src, AOK_ONE_MARK, AOK_PACKET_SUFFIX_SPACE)
               THEN [src |-> c.src, value |-> Nothing]
               ELSE [src |-> advance(c.src, 2), value |-> decode_bits(c.bits)] :
            c \in {CaptureBits(advance(src, 2))}} : TRUE

\* const uint8_t min_size of AOKProtocol::decode
min_size == (2 + (AOK_PACKET_SIZE * 2) + 2) % 256

\* sanity_size that leaves the repeats out
sanity_size_one_frame == min_size + (AOK_PRE_POST_ZEROS * 2)

\* the right-hand side of the sanity check of AOKProtocol::decode
sanity_size == (min_size * AOK_REPEATS) + (AOK_PRE_POST_ZEROS * 2)

(***************************************************************************)
(* The radio channel: what the receiver's buffer holds for a transmitted   *)
(* buffer `raw'.  These are the inputs of AOKProtocol::decode.             *)
(***************************************************************************)
\* pulse pairs that have neither the prefix shape nor a prefix mark in
\* their space position: far off every symbol, a one bit, a prefix mark
\* with an overlong space
NoisePairs == {<<1000, -1000>>, <<AOK_ONE_MARK, -AOK_ONE_SPACE>>,
               <<AOK_PACKET_PREFIX_MARK, -AOK_PACKET_SUFFIX_SPACE>>}

\* all runs of exactly n noise pairs
RECURSIVE NoiseRuns(_)
NoiseRuns(n) ==
  IF n = 0 THEN {<< >>}
  ELSE {r \o p : r \in NoiseRuns(n - 1), p \in NoisePairs}

\* n durations of pulses that match no symbol
Static(n) == [k \in 1..n |-> IF k % 2 = 1 THEN 1000 ELSE -1000]

\* index (from 0) of the first duration of frame k of a transmitted buffer
FrameStart(k) == (AOK_PRE_POST_ZEROS * 2) + (k * min_size)

\* index (from 0) of the mark that carries bit b of frame k
BitStart(k, b) == FrameStart(k) + 2 + (2 * (AOK_PACKET_SIZE - 1 - b))

\* the receiver reads bit b of frame k inverted
FlipBit(raw, k, b) ==
  LET at == BitStart(k, b)
      flipped == IF raw[at + 1] = AOK_ONE_MARK
                 THEN <<AOK_ZERO_MARK, -AOK_ZERO_SPACE>>
                 ELSE <<AOK_ONE_MARK, -AOK_ONE_SPACE>>
  IN  SubSeq(raw, 1, at) \o flipped \o SubSeq(raw, at + 3, Len(raw))

\* the receiver hears static in place of the pulse pair at index at
Garble(raw, at) == SubSeq(raw, 1, at) \o Static(2) \o SubSeq(raw, at + 3, Len(raw))

\* the pulse pairs of frame 0 the channel garbles, counted from the prefix
\* (pair 0): the first, a middle and the last bit pair, and the suffix
GarbledPairs == {1, 38, AOK_PACKET_SIZE, AOK_PACKET_SIZE + 1}

\* the receiver keeps the preamble and the first m frames and hears only
\* static for the rest of the buffer
TailLost(raw, m) ==
  SubSeq(raw, 1, FrameStart(m)) \o Static(Len(raw) - FrameStart(m))

\* buffer lengths around the sanity limit of decode and the length of a
\* whole transmission
CutLengths == {0, min_size, sanity_size - 1, sanity_size,
               sanity_size + (AOK_PRE_POST_ZEROS * 2) - 1}

(***************************************************************************)
(* State.                                                                  *)
(***************************************************************************)
VARIABLES
  pc,       \* position: "encode", "sent", then the positions of decode
  data,     \* the AOKData handed to encode
  dst,      \* the RemoteTransmitData encode fills
  src,      \* the RemoteReceiveData decode scans (its own copy)
  packets,  \* std::vector<AOKData> packets of decode
  packet,   \* auto packet of decode, the result of the last decode_packet
  skipped,  \* uint16_t skipped of decode
  start,    \* the cursor at the last call of decode_packet, -1 before the first
  peeked,   \* whether decode has peeked at or matched a pulse
  from,     \* the cursor when the running prefix search began, -1 before the first
  tries,    \* the calls of decode_packet so far: cursor before, cursor after, result
  result    \* the optional decode returned

vars == <<pc, data, dst, src, packets, packet, skipped, start, peeked, from, tries, result>>

Init ==
  /\ pc = "encode"
  /\ data \in Packets
  /\ dst = NewTransmitData
  /\ src = NewReceiveData(<< >>)
  /\ packets = << >>
  /\ packet = Nothing
  /\ skipped = 0
  /\ start = -1
  /\ peeked = FALSE
  /\ from = -1
  /\ tries = << >>
  /\ result = Nothing

\* AOKAction::encode / AOKProtocol::encode
Encode ==
  /\ pc = "encode"
  /\ dst' = encode(dst, data)
  /\ pc' = "sent"
  /\ UNCHANGED <<data, src, packets, packet, skipped, start, peeked, result, from, tries>>

\* decode is called with the buffer `raw'
Receive(raw) ==
  /\ pc = "sent"
  /\ src' = NewReceiveData(raw)
  /\ pc' = "decode"
  /\ UNCHANGED <<data, dst, packets, packet, skipped, start, peeked, result, from, tries>>

ReceiveClean == Receive(dst.data)

ReceiveNoisy == \E n \in 1..MaxNoise : \E r \in NoiseRuns(n) : Receive(r \o dst.data)

ReceiveFlipped == \E b \in 0..(AOK_PACKET_SIZE - 1) : Receive(FlipBit(dst.data, 0, b))

ReceiveCut == \E n \in CutLengths : Receive(SubSeq(dst.data, 1, n))

ReceiveTailLost == \E m \in 0..MaxKept : Receive(TailLost(dst.data, m))

ReceiveGarbled == \E p \in GarbledPairs : Receive(Garble(dst.data, FrameStart(0) + (2 * p)))

\* frame 0 is rejected (a flipped checksum bit, a garbled bit pair), frame 1
\* is intact and the rest of the buffer is static
ReceiveSpoiltTailLost ==
  \/ Receive(FlipBit(TailLost(dst.data, 2), 0, 0))
  \/ Receive(Garble(TailLost(dst.data, 2), FrameStart(0) + 2))

ReceiveShifted == Receive(Tail(dst.data)) \/ Receive(<<-1000>> \o dst.data)

(***************************************************************************)
(* AOKProtocol::decode, one action per step of its control flow.           *)
(***************************************************************************)
\* lines 138-149: the sanity check
DecodeEntry ==
  /\ pc = "decode"
  /\ IF size(src) < sanity_size
     THEN /\ result' = Nothing
          /\ pc' = "done"
     ELSE /\ result' = result
          /\ pc' = "loop"
  /\ packets' = << >>
  /\ UNCHANGED <<data, dst, src, packet, skipped, start, peeked, from, tries>>

\* line 152-154: the condition of the outer loop
DecodeLoop ==
  /\ pc = "loop"
  /\ IF get_index(src) < size(src) - min_size
     THEN /\ skipped' = 0
          /\ from' = get_index(src)
          /\ pc' = "search"
     ELSE /\ skipped' = skipped
          /\ from' = from
          /\ pc' = "return"
  /\ UNCHANGED <<data, dst, src, packets, packet, start, peeked, result, tries>>

\* Bail with the comparison turned round
Bail_inverted(s) ==
  IF get_index(s) < size(s) - min_size
  THEN /\ result' = Nothing
       /\ pc' = "done"
  ELSE /\ result' = result
       /\ pc' = "search"

\* Bail that compares the cursor with the size alone
Bail_at_end(s) ==
  IF get_index(s) > size(s)
  THEN /\ result' = Nothing
       /\ pc' = "done"
  ELSE /\ result' = result
       /\ pc' = "search"

\* lines 164-167 after the cursor has moved to s
Bail(s) ==
  IF get_index(s) > size(s) - min_size
  THEN /\ result' = Nothing
       /\ pc' = "done"
  ELSE /\ result' = result
       /\ pc' = "search"

\* line 155 finds the prefix at the cursor: the search loop ends
SearchFound ==
  /\ pc = "search"
  /\ peek_item(src, AOK_PACKET_PREFIX_MARK, AOK_ZERO_SPACE, 0)
  /\ peeked' = TRUE
  /\ pc' = "packet"
  /\ UNCHANGED <<data, dst, src, packets, packet, skipped, start, result, from, tries>>

\* SearchMisaligned that skips a whole pulse pair instead of one pulse
SearchMisaligned_by_pair ==
  /\ pc = "search"
  /\ ~peek_item(src, AOK_PACKET_PREFIX_MARK, AOK_ZERO_SPACE, 0)
  /\ peek_item(src, AOK_PACKET_PREFIX_MARK, AOK_ZERO_SPACE, 1)
  /\ peeked' = TRUE
  /\ src' = advance(src, 2)
  /\ Bail(src')
  /\ UNCHANGED <<data, dst, packets, packet, skipped, start, from, tries>>

\* lines 156-158: the prefix is one pulse ahead
SearchMisaligned ==
  /\ pc = "search"
  /\ ~peek_item(src, AOK_PACKET_PREFIX_MARK, AOK_ZERO_SPACE, 0)
  /\ peek_item(src, AOK_PACKET_PREFIX_MARK, AOK_ZERO_SPACE, 1)
  /\ peeked' = TRUE
  /\ src' = advance(src, 1)
  /\ Bail(src')
  /\ UNCHANGED <<data, dst, packets, packet, skipped, start, from, tries>>

\* SearchSkip that does not look one pulse ahead before it skips a pair
SearchSkip_blind ==
  /\ pc = "search"
  /\ ~peek_item(src, AOK_PACKET_PREFIX_MARK, AOK_ZERO_SPACE, 0)
  /\ peeked' = TRUE
  /\ src' = advance(src, 2)
  /\ skipped' = (skipped + 1) % 65536
  /\ Bail(src')
  /\ UNCHANGED <<data, dst, packets, packet, start, from, tries>>

\* lines 159-162: skip one pulse pair
SearchSkip ==
  /\ pc = "search"
  /\ ~peek_item(src, AOK_PACKET_PREFIX_MARK, AOK_ZERO_SPACE, 0)
  /\ ~peek_item(src, AOK_PACKET_PREFIX_MARK, AOK_ZERO_SPACE, 1)
  /\ peeked' = TRUE
  /\ src' = advance(src, 2)
  /\ skipped' = (skipped + 1) % 65536
  /\ Bail(src')
  /\ UNCHANGED <<data, dst, packets, packet, start, from, tries>>

\* lines 173-179: decode_packet at the cursor
TryPacket ==
  /\ pc = "packet"
  /\ \E r \in {decode_packet(src)} :
       /\ src' = r.src
       /\ packet' = r.value
       /\ packets' = IF has_value(r.value) THEN Append(packets, r.value[1]) ELSE packets
       /\ tries' = Append(tries, [at |-> get_index(src), to |-> get_index(r.src),
                                  value |-> r.value])
  /\ start' = get_index(src)
  /\ pc' = "loop"
  /\ UNCHANGED <<data, dst, skipped, peeked, result, from>>

\* DecodeReturn that returns the last packet collected
DecodeReturn_last ==
  /\ pc = "return"
  /\ result' = IF packets = << >> THEN Nothing ELSE Some(packets[Len(packets)])
  /\ pc' = "done"
  /\ UNCHANGED <<data, dst, src, packets, packet, skipped, start, peeked, from, tries>>

\* lines 182-185
DecodeReturn ==
  /\ pc = "return"
  /\ result' = IF packets = << >> THEN Nothing ELSE Some(Head(packets))
  /\ pc' = "done"
  /\ UNCHANGED <<data, dst, src, packets, packet, skipped, start, peeked, from, tries>>

Next ==
  \/ Encode
  \/ ReceiveClean
  \/ ReceiveNoisy
  \/ ReceiveFlipped
  \/ ReceiveCut
  \/ ReceiveTailLost
  \/ ReceiveShifted
  \/ ReceiveGarbled
  \/ ReceiveSpoiltTailLost
  \/ DecodeEntry
  \/ DecodeLoop
  \/ SearchFound
  \/ SearchMisaligned
  \/ SearchSkip
  \/ TryPacket
  \/ DecodeReturn

Spec == Init /\ [][Next]_vars

\* decode is sequential code: once called, each of its steps that can be
\* taken is taken
FairSpec ==
  /\ Spec
  /\ WF_vars(DecodeEntry)
  /\ WF_vars(DecodeLoop)
  /\ WF_vars(SearchFound)
  /\ WF_vars(SearchMisaligned)
  /\ WF_vars(SearchSkip)
  /\ WF_vars(TryPacket)
  /\ WF_vars(DecodeReturn)

(***************************************************************************)
(* Reading a pulse buffer back, independently of the codec.                *)
(***************************************************************************)
\* a duration d within the tolerance of the nominal duration n
Near(d, n) == (n * 3) \div 4 <= d /\ d <= (n * 5) \div 4

\* the pulse pair at index at (from 0) of raw is a mark near m and a space near s
PairAt(raw, at, m, s) ==
  /\ at + 2 <= Len(raw)
  /\ Near(raw[at + 1], m)
  /\ Near(-raw[at + 2], s)

OneAt(raw, at) == PairAt(raw, at, 600, 275)

ZeroAt(raw, at) == PairAt(raw, at, 290, 600)

\* a whole frame lies at index at: prefix, 64 bit pairs, suffix
WellFormedAt(raw, at) ==
  /\ PairAt(raw, at, 5000, 600)
  /\ \A i \in 0..63 : OneAt(raw, at + 2 + (2 * i)) \/ ZeroAt(raw, at + 2 + (2 * i))
  /\ PairAt(raw, at + 130, 600, 5000)

\* bit b (0 = least significant) of the frame at index at, sent most
\* significant bit first
WireBit(raw, at, b) == IF OneAt(raw, at + 2 + (2 * (63 - b))) THEN 1 ELSE 0

\* the value of the w bits from bit lo up of the frame at index at
WireField(raw, at, lo, w) ==
  LET weigh[k \in 0..w] == IF k = w THEN 0 ELSE WireBit(raw, at, lo + k) + 2 * weigh[k + 1]
  IN  weigh[0]

\* the additive checksum of three device bytes, two channel bytes and the command
ByteSum(device, channel, command) ==
  ((device % 256) + ((device \div 256) % 256) + ((device \div 65536) % 256)
   + (channel % 256) + ((channel \div 256) % 256) + command) % 256

\* index (from 0) of frame k of a transmission: 16 preamble pairs, 66 pairs a frame
TxFrame(k) == 32 + (132 * k)

\* the n pulse pairs from index at on are all the zero pair (290, 600)
ZerosAt(raw, at, n) ==
  \A k \in 0..(n - 1) : raw[at + (2 * k) + 1] = 290 /\ raw[at + (2 * k) + 2] = -600

Valid(d) == d.device < 16777216

\* encode has returned and nothing else has happened yet
Sent == pc = "sent"

CleanReception == pc = "done" /\ src.data = dst.data

(***************************************************************************)
(* C1  Round trip: when decode has finished on exactly the pulses that     *)
(* encode produced for a packet with device < 2^24 and a command other     *)
(* than UP and DOWN, it returned that packet.                              *)
(***************************************************************************)
C1_RoundTrip ==
  (CleanReception /\ Valid(data) /\ data.command \notin {COMMAND_UP, COMMAND_DOWN})
    => result = Some(data)

C1_Witness ==
  /\ CleanReception
  /\ data = [device |-> 16777215, channel |-> CHANNEL_ALL, command |-> COMMAND_PROGRAM]
  /\ result = Some(data)
  /\ Len(packets) = 6

(***************************************************************************)
(* C2  First valid burst wins: when decode has finished on a buffer that   *)
(* passed the minimum length check, it returned the first frame it decoded *)
(* successfully, and the empty result only if it decoded none.             *)
(***************************************************************************)
C2_FirstValidWins ==
  (pc = "done" /\ Len(src.data) >= 824)
    => result = (IF packets = << >> THEN Nothing ELSE Some(Head(packets)))

(***************************************************************************)
(* C3  Wire frame layout: every frame sent for a packet with device < 2^24 *)
(* carries 0xA3 in bits 63..56, the device in bits 55..32, the channel in  *)
(* bits 31..16, the command in bits 15..8 and the byte sum of device,      *)
(* channel and command in bits 7..0; device 0x010203, channel 0x0100,      *)
(* command 0x23 is sent as 0xA30102030100232A, and decode_packet on that   *)
(* frame returns the packet.                                               *)
(***************************************************************************)
C3_WireLayout ==
  /\ (Sent /\ Valid(data)) =>
       \A k \in 0..5 :
         /\ WireField(dst.data, TxFrame(k), 56, 8) = 163
         /\ WireField(dst.data, TxFrame(k), 32, 24) = data.device
         /\ WireField(dst.data, TxFrame(k), 16, 16) = data.channel
         /\ WireField(dst.data, TxFrame(k), 8, 8) = data.command
         /\ WireField(dst.data, TxFrame(k), 0, 8)
              = ByteSum(data.device, data.channel, data.command)
  /\ (Sent /\ data = [device |-> 66051, channel |-> 256, command |-> 35]) =>
       /\ WireField(dst.data, 32, 48, 16) = 41729
       /\ WireField(dst.data, 32, 32, 16) = 515
       /\ WireField(dst.data, 32, 16, 16) = 256
       /\ WireField(dst.data, 32, 0, 16) = 9002
  /\ (pc = "loop" /\ start = 32 /\ src.data = dst.data /\ Valid(data)) =>
       /\ packet = Some(data)
       /\ src.index = 164

C3_Witness ==
  /\ pc = "loop"
  /\ start = 32
  /\ src.data = dst.data
  /\ data = [device |-> 66051, channel |-> 256, command |-> 35]
  /\ WireField(dst.data, 32, 0, 8) = 42
  /\ packet = Some(data)

(***************************************************************************)
(* C4  Release synthesis: for UP and DOWN encode emits, between preamble   *)
(* and postamble, 6 frames with the packet's command and then 6 frames     *)
(* with the same device and channel and the command RELEASE; for STOP and  *)
(* PROGRAM it emits the 6 frames of the packet only, none with RELEASE.    *)
(***************************************************************************)
C4_ReleaseSynthesis ==
  /\ (Sent /\ data.command \in {COMMAND_UP, COMMAND_DOWN}) =>
       /\ Len(dst.data) = TxFrame(12) + 32
       /\ \A k \in 0..11 : WellFormedAt(dst.data, TxFrame(k))
       /\ \A k \in 0..5 : WireField(dst.data, TxFrame(k), 8, 8) = data.command
       /\ \A k \in 6..11 :
            /\ WireField(dst.data, TxFrame(k), 8, 8) = 36
            /\ WireField(dst.data, TxFrame(k), 32, 24) = WireField(dst.data, 32, 32, 24)
            /\ WireField(dst.data, TxFrame(k), 16, 16) = data.channel
       /\ ZerosAt(dst.data, TxFrame(12), 16)
  /\ (Sent /\ data.command \in {COMMAND_STOP, COMMAND_PROGRAM}) =>
       /\ Len(dst.data) = TxFrame(6) + 32
       /\ \A k \in 0..5 :
            /\ WellFormedAt(dst.data, TxFrame(k))
            /\ WireField(dst.data, TxFrame(k), 8, 8) = data.command
       /\ ZerosAt(dst.data, TxFrame(6), 16)

C4_Witness ==
  /\ Sent
  /\ data.command = COMMAND_DOWN
  /\ WireField(dst.data, TxFrame(5), 8, 8) = 67
  /\ WireField(dst.data, TxFrame(6), 8, 8) = 36
  /\ Len(dst.data) = 1648

(***************************************************************************)
(* C5  Transmit sequence structure: encode sets the carrier frequency to   *)
(* 0 and emits 16 zero pairs (290, 600), the frames, and 16 zero pairs;    *)
(* each frame is 66 pairs: (5000, 600), then for bit 63 down to bit 0 of   *)
(* packet_bits (600, 275) for a 1 and (290, 600) for a 0, then (600, 5000).*)
(***************************************************************************)
\* duration j (from 0) of the frame that carries the bitset bits
FrameDuration(bits, j) ==
  IF j = 0 THEN 5000
  ELSE IF j = 1 THEN -600
  ELSE IF j = 130 THEN 600
  ELSE IF j = 131 THEN -5000
  ELSE LET b == bits[63 - ((j - 2) \div 2)]
       IN  IF j % 2 = 0 THEN (IF b = 1 THEN 600 ELSE 290)
           ELSE (IF b = 1 THEN -275 ELSE -600)

C5_TransmitStructure ==
  Sent =>
    LET frames == (Len(dst.data) - 64) \div 132
    IN  /\ dst.carrier_frequency = 0
        /\ Len(dst.data) = 64 + (132 * frames)
        /\ frames \in {6, 12}
        /\ ZerosAt(dst.data, 0, 16)
        /\ ZerosAt(dst.data, TxFrame(frames), 16)
        /\ \A k \in 0..(frames - 1) : \A j \in 0..131 :
             dst.data[TxFrame(k) + j + 1]
               = FrameDuration(packet_bits(IF k < 6 THEN data
                                           ELSE [data EXCEPT !.command = 36]), j)

C5_Witness ==
  /\ Sent
  /\ dst.carrier_frequency = 0
  /\ Len(dst.data) = 856
  /\ dst.data[33] = 5000
  /\ dst.data[34] = -600
  /\ dst.data[35] = 600
  /\ dst.data[36] = -275
  /\ dst.data[37] = 290
  /\ dst.data[163] = 600
  /\ dst.data[164] = -5000

(***************************************************************************)
(* Single-frame decode as the scan observes it: decode_packet was called   *)
(* with the cursor on index start and has returned `packet'.               *)
(***************************************************************************)
Tried == pc = "loop" /\ start >= 0

\* the 64 bits of the frame at index at, least significant first, as a
\* sequence: element b + 1 is bit b
FrameBits(raw, at) == [k \in 1..64 |-> WireBit(raw, at, k - 1)] \o << >>

\* the bits form a valid wire frame once bit f is inverted
ValidFlipped(bits, f) ==
  LET bit(b) == IF b = f THEN 1 - bits[b + 1] ELSE bits[b + 1]
      byte(lo) == bit(lo) + 2 * bit(lo + 1) + 4 * bit(lo + 2) + 8 * bit(lo + 3)
                  + 16 * bit(lo + 4) + 32 * bit(lo + 5) + 64 * bit(lo + 6)
                  + 128 * bit(lo + 7)
  IN  /\ byte(56) = 163
      /\ byte(0) = (byte(48) + byte(40) + byte(32) + byte(24) + byte(16) + byte(8)) % 256

ValidWithFlip(raw, at, f) == ValidFlipped(FrameBits(raw, at), f)

(***************************************************************************)
(* C6  Header rejection: decode_packet returns the empty result for every  *)
(* well-formed frame (prefix, 64 bit pairs, suffix) whose top byte is not  *)
(* 0xA3, in particular for a valid frame with one header bit inverted.     *)
(***************************************************************************)
C6_HeaderRejection ==
  (Tried /\ WellFormedAt(src.data, start) /\ WireField(src.data, start, 56, 8) # 163)
    => packet = Nothing

C6_Witness ==
  /\ Tried
  /\ WellFormedAt(src.data, start)
  /\ \E f \in 56..63 : ValidWithFlip(src.data, start, f)
  /\ WireField(src.data, start, 56, 8) # 163
  /\ packet = Nothing

(***************************************************************************)
(* C7  Checksum rejection: decode_packet returns the empty result for      *)
(* every well-formed frame that is a valid frame with one bit of the       *)
(* checksum byte, or one bit of the device, channel or command field,      *)
(* inverted.                                                               *)
(***************************************************************************)
C7_ChecksumRejection ==
  (Tried /\ WellFormedAt(src.data, start)
         /\ LET bits == FrameBits(src.data, start)
            IN  \E f \in 0..55 : ValidFlipped(bits, f))
    => packet = Nothing

C7_Witness ==
  /\ Tried
  /\ WellFormedAt(src.data, start)
  /\ ValidWithFlip(src.data, start, 40)
  /\ WireField(src.data, start, 56, 8) = 163
  /\ packet = Nothing

C7_WitnessChecksumBit ==
  /\ Tried
  /\ WellFormedAt(src.data, start)
  /\ ValidWithFlip(src.data, start, 7)
  /\ packet = Nothing

(***************************************************************************)
(* C8  Truncation of over-wide fields: for every device value, also one    *)
(* with bits above bit 23 set, the frames encode emits carry the header    *)
(* byte 0xA3 and the low 24 bits of the device in the device field.        *)
(***************************************************************************)
C8_WideDeviceTruncated ==
  Sent =>
    /\ WireField(dst.data, 32, 56, 8) = 163
    /\ WireField(dst.data, 32, 32, 24) = data.device % 16777216

(***************************************************************************)
(* C9  Insufficient-length short circuit.                                  *)
(* As claimed: decode of a buffer shorter than a whole transmission (16    *)
(* preamble pairs, 6 frames of 66 pairs, 16 postamble pairs: 856           *)
(* durations) returns the empty result without peeking at, matching or     *)
(* advancing over a pulse.                                                 *)
(***************************************************************************)
Scanning == pc \in {"loop", "search", "packet", "return"}

C9_ShortCircuitWholeBurst ==
  Len(src.data) < 2 * (16 + (66 * 6) + 16)
    => /\ ~Scanning
       /\ pc = "done" => (result = Nothing /\ ~peeked /\ src.index = 0)

(***************************************************************************)
(* C9 as amended: decode of a buffer shorter than 824 durations (6 frames  *)
(* of 66 pairs and one run of 16 pairs) returns the empty result without   *)
(* peeking at, matching or advancing over a pulse.                         *)
(***************************************************************************)
C9_ShortCircuit ==
  Len(src.data) < 2 * ((66 * 6) + 16)
    => /\ ~Scanning
       /\ pc = "done" => (result = Nothing /\ ~peeked /\ src.index = 0)

C9_Witness ==
  /\ pc = "done"
  /\ Len(src.data) = 823
  /\ result = Nothing
  /\ ~peeked
  /\ src.index = 0

(***************************************************************************)
(* C10  Noise tolerance: when decode has finished on 1 or 2 noise pairs    *)
(* (no prefix shape at the pair nor one pulse after it) followed by the    *)
(* pulses encode produced for a packet with device < 2^24, it returned     *)
(* that packet.                                                            *)
(***************************************************************************)
\* raw is n noise pairs followed by exactly sent
NoiseThenBurst(raw, sent, n) ==
  /\ Len(raw) = Len(sent) + (2 * n)
  /\ \A k \in 0..(n - 1) :
       ~PairAt(raw, 2 * k, 5000, 600) /\ ~PairAt(raw, (2 * k) + 1, 5000, 600)
  /\ SubSeq(raw, (2 * n) + 1, Len(raw)) = sent

C10_NoiseTolerance ==
  (pc = "done" /\ Valid(data)
     /\ \E n \in 1..MaxNoise : NoiseThenBurst(src.data, dst.data, n))
    => result = Some(data)

C10_Witness ==
  /\ pc = "done"
  /\ Valid(data)
  /\ NoiseThenBurst(src.data, dst.data, 2)
  /\ src.data[1] = 5000
  /\ result = Some(data)

(***************************************************************************)
(* C11  Misalignment recovery: decode of the pulses of encode(P), P with   *)
(* device < 2^24, with one extra leading duration or without their first   *)
(* duration returns P; and a step of the prefix search moves the cursor by *)
(* exactly one duration if and only if the prefix pair (5000, 600) lies    *)
(* one duration ahead of the cursor and not at the cursor.                 *)
(***************************************************************************)
\* raw is sent with one more leading duration, or without its first one
ShiftedBy1(raw, sent) ==
  \/ Len(raw) = Len(sent) + 1 /\ Tail(raw) = sent
  \/ Len(raw) = Len(sent) - 1 /\ raw = Tail(sent)

PrefixAt(raw, at) == PairAt(raw, at, 5000, 600)

C11_MisalignmentRecovery ==
  [][/\ (pc' = "done" /\ Valid(data) /\ ShiftedBy1(src'.data, dst.data))
          => result' = Some(data)
     /\ pc = "search"
          => ((src'.index = src.index + 1)
                <=> (~PrefixAt(src.data, src.index) /\ PrefixAt(src.data, src.index + 1)))
    ]_vars

C11_Witness ==
  /\ pc = "done"
  /\ Valid(data)
  /\ Len(src.data) = Len(dst.data) - 1
  /\ src.data = Tail(dst.data)
  /\ src.index % 2 = 1
  /\ tries # << >>
  /\ tries[1].at = 31
  /\ result = Some(data)

C11_WitnessExtraPulse ==
  /\ pc = "done"
  /\ Valid(data)
  /\ Len(src.data) = Len(dst.data) + 1
  /\ Tail(src.data) = dst.data
  /\ tries # << >>
  /\ tries[1].at = 33
  /\ result = Some(data)

(***************************************************************************)
(* C12  A rejected frame is not a stream-level error: when decode has      *)
(* finished on a buffer that passed the minimum length check, in which     *)
(* decode_packet rejected a frame and accepted a later one, it returned    *)
(* the packet of the first accepted frame.                                 *)
(***************************************************************************)
\* the calls of decode_packet that returned a packet
Accepted == {i \in 1..Len(tries) : tries[i].value # Nothing}

RejectedThenAccepted ==
  \E i \in 1..Len(tries) : \E j \in Accepted : i < j /\ tries[i].value = Nothing

C12_RejectedFrameNotFatal ==
  (pc = "done" /\ Len(src.data) >= 824 /\ RejectedThenAccepted)
    => result = tries[CHOOSE j \in Accepted : \A k \in Accepted : j <= k].value

\* the case the claim names holds: the output of encode with only its
\* first repeat corrupted (a flipped bit, a garbled pair) decodes to P
C12_FirstRepeatCorrupted ==
  (pc = "done" /\ Valid(data) /\ Len(src.data) = Len(dst.data)
     /\ RejectedThenAccepted
     /\ SubSeq(src.data, 165, Len(src.data)) = SubSeq(dst.data, 165, Len(dst.data)))
    => result = Some(data)

C12_WitnessFirstRepeatCorrupted ==
  /\ pc = "done"
  /\ Valid(data)
  /\ Len(src.data) = Len(dst.data)
  /\ RejectedThenAccepted
  /\ tries[1].to = 34
  /\ SubSeq(src.data, 165, Len(src.data)) = SubSeq(dst.data, 165, Len(dst.data))
  /\ result = Some(data)

(***************************************************************************)
(* C13  Decode soundness: every packet decode_packet returned, and so the  *)
(* packet decode returns, was read from a contiguous run of the buffer     *)
(* made of a prefix pair, 64 pairs of the one or zero shape and a suffix   *)
(* pair, whose 64 bits have the top byte 0xA3 and a low byte equal to the  *)
(* byte sum of bits 55..8; its device, channel and command are bits        *)
(* 55..32, 31..16 and 15..8.                                               *)
(***************************************************************************)
\* the optional o holds the packet carried by a valid frame at index at of raw
ReadFrom(o, raw, at) ==
  /\ o # Nothing
  /\ WellFormedAt(raw, at)
  /\ WireField(raw, at, 56, 8) = 163
  /\ WireField(raw, at, 0, 8)
       = ByteSum(WireField(raw, at, 32, 24), WireField(raw, at, 16, 16),
                 WireField(raw, at, 8, 8))
  /\ o[1].device = WireField(raw, at, 32, 24)
  /\ o[1].channel = WireField(raw, at, 16, 16)
  /\ o[1].command = WireField(raw, at, 8, 8)

C13_DecodeSoundness ==
  /\ (Tried /\ packet # Nothing) => ReadFrom(packet, src.data, start)
  /\ (pc = "done" /\ result # Nothing) =>
       \E i \in 1..Len(tries) :
         tries[i].value = result /\ ReadFrom(result, src.data, tries[i].at)

C13_Witness ==
  /\ pc = "done"
  /\ result # Nothing
  /\ result # Some(data)
  /\ ReadFrom(result, src.data, tries[1].at)

(***************************************************************************)
(* C14  Unrecognized bit pulse: when the pair at bit position i of the     *)
(* frame decode_packet was called on is neither (600, 275) nor (290, 600), *)
(* it returned the empty result, no packet was stored, and the cursor is   *)
(* on that pair (prefix and i bit pairs consumed); with 64 bit pairs and   *)
(* no suffix the cursor is just after the 64th bit pair; without a prefix  *)
(* at the cursor decode_packet returns the empty result and moves nothing. *)
(***************************************************************************)
\* the bit positions of the frame at index at whose pair has neither shape
BadBits(raw, at) ==
  {i \in 0..63 : ~OneAt(raw, at + 2 + (2 * i)) /\ ~ZeroAt(raw, at + 2 + (2 * i))}

Least(S) == CHOOSE i \in S : \A k \in S : i <= k

C14_UnrecognizedBitPulse ==
  /\ (Tried /\ PrefixAt(src.data, start)) =>
       LET bad == BadBits(src.data, start)
       IN  /\ bad # {} =>
                /\ packet = Nothing
                /\ src.index = start + 2 + (2 * Least(bad))
                /\ Len(packets) = Cardinality(Accepted)
           /\ (bad = {} /\ ~PairAt(src.data, start + 130, 600, 5000)) =>
                /\ packet = Nothing
                /\ src.index = start + 130
                /\ Len(packets) = Cardinality(Accepted)
  /\ (pc = "search" /\ ~PrefixAt(src.data, src.index)) =>
       decode_packet(src) = [src |-> src, value |-> Nothing]

C14_Witness ==
  /\ Tried
  /\ PrefixAt(src.data, start)
  /\ BadBits(src.data, start) = {37}
  /\ src.index = start + 76
  /\ packet = Nothing
  /\ packets = << >>

C14_WitnessSuffix ==
  /\ Tried
  /\ PrefixAt(src.data, start)
  /\ BadBits(src.data, start) = {}
  /\ ~PairAt(src.data, start + 130, 600, 5000)
  /\ src.index = start + 130
  /\ packet = Nothing

(***************************************************************************)
(* C15  Capacity: the size encode reserves equals the number of durations  *)
(* it emits, 2 * (32 + 396 * k) with k = 2 for UP and DOWN and k = 1       *)
(* otherwise (1648 or 856), a value that fits 16 bits.                     *)
(***************************************************************************)
C15_Capacity ==
  Sent =>
    LET k == IF data.command \in {COMMAND_UP, COMMAND_DOWN} THEN 2 ELSE 1
    IN  /\ dst.reserved = Len(dst.data)
        /\ dst.reserved = 2 * (32 + (396 * k))
        /\ dst.reserved \in {856, 1648}
        /\ 2 * (16 + (66 * 6 * k) + 16) < 65536

C15_Witness ==
  /\ Sent
  /\ data.command = COMMAND_UP
  /\ dst.reserved = 1648
  /\ Len(dst.data) = 1648

(***************************************************************************)
(* C16  Decoding an UP/DOWN transmission: decode of the pulses of          *)
(* encode(P), P with device < 2^24 and command UP or DOWN, parses 12       *)
(* frames, 6 with P and then 6 with RELEASE, and returns P; for STOP and   *)
(* PROGRAM it parses 6 frames, all with P, and returns P.                  *)
(***************************************************************************)
C16_ReleaseNotReturned ==
  (CleanReception /\ Valid(data)) =>
    /\ data.command \in {COMMAND_UP, COMMAND_DOWN} =>
         /\ Len(packets) = 12
         /\ Len(tries) = 12
         /\ \A i \in 1..6 : packets[i] = data
         /\ \A i \in 7..12 : packets[i] = [data EXCEPT !.command = 36]
         /\ result = Some(data)
    /\ data.command \in {COMMAND_STOP, COMMAND_PROGRAM} =>
         /\ Len(packets) = 6
         /\ Len(tries) = 6
         /\ \A i \in 1..6 : packets[i] = data
         /\ result = Some(data)

C16_Witness ==
  /\ CleanReception
  /\ data = [device |-> 66051, channel |-> 256, command |-> 11]
  /\ Len(packets) = 12
  /\ packets[12].command = 36
  /\ result = Some(data)

(***************************************************************************)
(* C17  Prefix search never skips a frame start: when the prefix search    *)
(* ends on a match, the cursor is on the smallest index, at or after the   *)
(* index where the search began, at which the prefix pair (5000, 600)      *)
(* matches; and a search step moves the cursor by 2 only when the prefix   *)
(* matches neither at the cursor nor one duration ahead.                   *)
(***************************************************************************)
C17_NoFrameStartSkipped ==
  [][/\ pc' = "packet" =>
          /\ from <= src'.index
          /\ PrefixAt(src'.data, src'.index)
          /\ \A j \in from..(src'.index - 1) : ~PrefixAt(src'.data, j)
     /\ (pc = "search" /\ src'.index = src.index + 2) =>
          /\ ~PrefixAt(src.data, src.index)
          /\ ~PrefixAt(src.data, src.index + 1)
    ]_vars

C17_Witness ==
  /\ pc = "packet"
  /\ from = 0
  /\ src.index = 31
  /\ skipped = 15
  /\ PrefixAt(src.data, 31)

(***************************************************************************)
(* C18  Termination: decode, once called, terminates on every buffer;      *)
(* every round of the prefix search loop moves the cursor forward by 1 or  *)
(* 2, every call of decode_packet by the scan moves it forward by at       *)
(* least 2, and the cursor never moves backward.                           *)
(***************************************************************************)
C18_Termination ==
  /\ (pc = "decode") ~> (pc = "done")
  /\ [][/\ (pc = "search" /\ pc' # "packet") => (src'.index - src.index) \in {1, 2}
        /\ pc = "packet" => src'.index >= src.index + 2
        /\ src'.index >= src.index
       ]_vars

C18_Witness ==
  /\ pc = "done"
  /\ tries # << >>
  /\ tries[1].to = tries[1].at + 2
  /\ src.index > tries[1].to
  /\ result # Nothing

(***************************************************************************)
(* C19  Bounds safety: the cursor never exceeds the size of the buffer;    *)
(* decode_packet is only called with at least 132 durations left; and the  *)
(* search, which looks at the durations up to 2 past the cursor, and       *)
(* decode_packet, which looks at those up to 131 past it, read only        *)
(* indices below the size.                                                 *)
(***************************************************************************)
C19_BoundsSafety ==
  /\ src.index <= Len(src.data)
  /\ pc = "packet" =>
       /\ Len(src.data) - src.index >= 132
       /\ src.index + 131 < Len(src.data)
  /\ pc = "search" => src.index + 2 < Len(src.data)

C19_Witness ==
  /\ pc = "search"
  /\ Len(src.data) = 856
  /\ src.index = 724
  /\ src.index + 2 < Len(src.data)

TypeOK ==
  /\ pc \in {"encode", "sent", "decode", "loop", "search", "packet", "return", "done"}
  /\ src.index <= Len(src.data)

====
